---------------------------- MODULE Spec2Model ----------------------------
(***************************************************************************)
(* Model of the sandbox search adapter (SandboxOpenSearchAdapter):         *)
(*   - the filter compiler       buildSearchQuery                          *)
(*   - the sort resolver         getSortFieldMapping                       *)
(*   - the query executor        buildSearchBody / executeSearch           *)
(*   - the result mapper         processSearchResponse                     *)
(*   - the cursor codec          JSON.stringify/parse + base64             *)
(*   - the index lifecycle       createIndex / onModuleInit                *)
(*                                                                         *)
(* Strings that are sorted, prefix-matched or serialised into a cursor are *)
(* sequences of ASCII codes (<<97, 98>> is "ab"); every other string is a  *)
(* TLA+ string.  A cursor token is a sequence of base64 alphabet indexes,  *)
(* 0..63, with 64 standing for the padding character '='.                  *)
(***************************************************************************)
EXTENDS Integers, Sequences, FiniteSets, TLC

(***************************************************************************)
(* Bounds of the model.                                                    *)
(***************************************************************************)
\* number of documents in the index
MaxDocs == 10
\* largest page size a caller asks for
MaxLimit == 3
\* number of adapter instances starting up against one index service
NumInstances == 2

(***************************************************************************)
(* Sequence helpers.                                                       *)
(***************************************************************************)
Min2(a, b) == IF a <= b THEN a ELSE b

Take(s, n) == SubSeq(s, 1, Min2(n, Len(s)))

Drop(s, n) == SubSeq(s, n + 1, Len(s))

\* lexicographic order on code sequences (byte order of a keyword field)
RECURSIVE SeqLess(_, _)
SeqLess(a, b) ==
  IF a = <<>> THEN b # <<>>
  ELSE IF b = <<>> THEN FALSE
  ELSE IF Head(a) # Head(b) THEN Head(a) < Head(b)
  ELSE SeqLess(Tail(a), Tail(b))

IsPrefix(p, s) == Len(p) <= Len(s) /\ SubSeq(s, 1, Len(p)) = p

\* String.prototype.toLowerCase on ASCII codes
toLowerCase(s) == [i \in 1..Len(s) |-> IF s[i] \in 65..90 THEN s[i] + 32 ELSE s[i]]

(***************************************************************************)
(* JSON values.  One record shape for every kind, so that values of        *)
(* different kinds can be compared.                                        *)
(***************************************************************************)
JNum(n) == [t |-> "num", n |-> n, s |-> <<>>, a |-> <<>>]
JStr(s) == [t |-> "str", n |-> 0, s |-> s, a |-> <<>>]
JArr(a) == [t |-> "arr", n |-> 0, s |-> <<>>, a |-> a]
JObj(a) == [t |-> "obj", n |-> 0, s |-> <<>>, a |-> a]
JNull == [t |-> "null", n |-> 0, s |-> <<>>, a |-> <<>>]
\* the JavaScript value undefined (a property that is not there)
JUndefined == [t |-> "undefined", n |-> 0, s |-> <<>>, a |-> <<>>]

RECURSIVE Digits(_)
Digits(n) == IF n < 10 THEN <<48 + n>> ELSE Digits(n \div 10) \o <<48 + (n % 10)>>

\* JSON.stringify: no white space; undefined inside an array is written null
RECURSIVE JSONstringify(_)
RECURSIVE StringifyElems(_, _)
StringifyElems(a, i) ==
  IF i > Len(a) THEN <<>>
  ELSE (IF i > 1 THEN <<44>> ELSE <<>>) \o JSONstringify(a[i]) \o StringifyElems(a, i + 1)

JSONstringify(v) ==
  CASE v.t = "num" -> Digits(v.n)
    [] v.t = "str" -> <<34>> \o v.s \o <<34>>
    [] v.t = "arr" -> <<91>> \o StringifyElems(v.a, 1) \o <<93>>
    [] v.t = "obj" -> <<123, 125>>
    [] OTHER -> <<110, 117, 108, 108>>

(***************************************************************************)
(* JSON.parse, on the texts the model produces and forges: non-negative    *)
(* integers, strings without escapes, null, arrays and objects.  The       *)
(* result is [ok, v, next]; ok = FALSE is the SyntaxError JSON.parse       *)
(* throws.                                                                 *)
(***************************************************************************)
ParseFail == [ok |-> FALSE, v |-> JNull, next |-> 0]
ParseOk(v, next) == [ok |-> TRUE, v |-> v, next |-> next]

IsDigit(c) == c \in 48..57

RECURSIVE DigitsEnd(_, _)
\* the first position at or after i that holds no digit
DigitsEnd(s, i) == IF i <= Len(s) /\ IsDigit(s[i]) THEN DigitsEnd(s, i + 1) ELSE i

RECURSIVE NumberOf(_)
NumberOf(ds) ==
  IF ds = <<>> THEN 0 ELSE 10 * NumberOf(SubSeq(ds, 1, Len(ds) - 1)) + (ds[Len(ds)] - 48)

RECURSIVE QuoteEnd(_, _)
\* the position of the closing quote at or after i; 0 when there is none or
\* when a control character or a backslash comes first
QuoteEnd(s, i) ==
  IF i > Len(s) THEN 0
  ELSE IF s[i] = 34 THEN i
  ELSE IF s[i] < 32 \/ s[i] = 92 THEN 0
  ELSE QuoteEnd(s, i + 1)

ParseString(s, i) ==
  LET e == QuoteEnd(s, i + 1)
  IN IF e = 0 THEN ParseFail ELSE ParseOk(JStr(SubSeq(s, i + 1, e - 1)), e + 1)

ParseNumber(s, i) ==
  LET e == DigitsEnd(s, i)
  IN IF s[i] = 48 /\ e > i + 1 THEN ParseFail
     ELSE ParseOk(JNum(NumberOf(SubSeq(s, i, e - 1))), e)

RECURSIVE ParseValue(_, _)
RECURSIVE ParseElems(_, _, _)
RECURSIVE ParseMembers(_, _, _)
\* the elements of an array, the position i being that of an element
ParseElems(s, i, acc) ==
  LET r == ParseValue(s, i)
  IN IF ~r.ok \/ r.next > Len(s) THEN ParseFail
     ELSE IF s[r.next] = 93 THEN ParseOk(JArr(Append(acc, r.v)), r.next + 1)
     ELSE IF s[r.next] = 44 THEN ParseElems(s, r.next + 1, Append(acc, r.v))
     ELSE ParseFail

\* the members of an object, the position i being that of a key
ParseMembers(s, i, acc) ==
  IF i > Len(s) \/ s[i] # 34 THEN ParseFail
  ELSE LET k == ParseString(s, i)
       IN IF ~k.ok \/ k.next > Len(s) \/ s[k.next] # 58 THEN ParseFail
          ELSE LET r == ParseValue(s, k.next + 1)
               IN IF ~r.ok \/ r.next > Len(s) THEN ParseFail
                  ELSE IF s[r.next] = 125
                         THEN ParseOk(JObj(Append(acc, r.v)), r.next + 1)
                  ELSE IF s[r.next] = 44
                         THEN ParseMembers(s, r.next + 1, Append(acc, r.v))
                  ELSE ParseFail

ParseValue(s, i) ==
  IF i > Len(s) THEN ParseFail
  ELSE IF s[i] = 34 THEN ParseString(s, i)
  ELSE IF IsDigit(s[i]) THEN ParseNumber(s, i)
  ELSE IF s[i] = 110
         THEN IF i + 3 <= Len(s) /\ SubSeq(s, i, i + 3) = <<110, 117, 108, 108>>
                THEN ParseOk(JNull, i + 4) ELSE ParseFail
  ELSE IF s[i] = 91
         THEN IF i + 1 <= Len(s) /\ s[i + 1] = 93
                THEN ParseOk(JArr(<<>>), i + 2) ELSE ParseElems(s, i + 1, <<>>)
  ELSE IF s[i] = 123
         THEN IF i + 1 <= Len(s) /\ s[i + 1] = 125
                THEN ParseOk(JObj(<<>>), i + 2) ELSE ParseMembers(s, i + 1, <<>>)
  ELSE ParseFail

JSONparse(s) ==
  LET r == ParseValue(s, 1)
  IN IF r.ok /\ r.next = Len(s) + 1 THEN r ELSE ParseFail

(***************************************************************************)
(* base64, as Buffer.from(text).toString('base64') writes it and as        *)
(* Buffer.from(token, 'base64') reads it: reading never fails, stops at    *)
(* the first padding character and drops a trailing lone symbol.           *)
(***************************************************************************)
Pad == 64

RECURSIVE toBase64NoTail(_)
\* base64 that drops a trailing group of one or two bytes
toBase64NoTail(b) ==
  IF Len(b) < 3 THEN <<>>
  ELSE <<b[1] \div 4, (b[1] % 4) * 16 + (b[2] \div 16),
         (b[2] % 16) * 4 + (b[3] \div 64), b[3] % 64>> \o toBase64NoTail(Drop(b, 3))

RECURSIVE toBase64(_)
toBase64(b) ==
  IF Len(b) = 0 THEN <<>>
  ELSE IF Len(b) = 1
    THEN <<b[1] \div 4, (b[1] % 4) * 16, Pad, Pad>>
  ELSE IF Len(b) = 2
    THEN <<b[1] \div 4, (b[1] % 4) * 16 + (b[2] \div 16), (b[2] % 16) * 4, Pad>>
  ELSE <<b[1] \div 4, (b[1] % 4) * 16 + (b[2] \div 16),
         (b[2] % 16) * 4 + (b[3] \div 64), b[3] % 64>> \o toBase64(Drop(b, 3))

RECURSIVE PadStart(_, _)
\* the position of the first padding character at or after i, else Len + 1
PadStart(t, i) == IF i > Len(t) \/ t[i] = Pad THEN i ELSE PadStart(t, i + 1)

RECURSIVE fromBase64Symbols(_)
fromBase64Symbols(t) ==
  IF Len(t) <= 1 THEN <<>>
  ELSE IF Len(t) = 2
    THEN <<t[1] * 4 + (t[2] \div 16)>>
  ELSE IF Len(t) = 3
    THEN <<t[1] * 4 + (t[2] \div 16), (t[2] % 16) * 16 + (t[3] \div 4)>>
  ELSE <<t[1] * 4 + (t[2] \div 16), (t[2] % 16) * 16 + (t[3] \div 4),
         (t[3] % 4) * 64 + t[4]>> \o fromBase64Symbols(Drop(t, 4))

fromBase64(t) == fromBase64Symbols(SubSeq(t, 1, PadStart(t, 1) - 1))

(***************************************************************************)
(* Enum values and defaults the adapter imports (sandbox-state.enum,       *)
(* sandbox-desired-state.enum, search-sandboxes-query.dto).                *)
(***************************************************************************)
\* SandboxState.ERROR = "error"
STATE_ERROR == <<101, 114, 114, 111, 114>>
\* SandboxState.STARTED = "started"
STATE_STARTED == <<115, 116, 97, 114, 116, 101, 100>>
\* SandboxState.STOPPED = "stopped"
STATE_STOPPED == <<115, 116, 111, 112, 112, 101, 100>>
\* SandboxDesiredState.DESTROYED / STARTED
DESIRED_DESTROYED == "destroyed"
DESIRED_STARTED == "started"

\* the logical sort fields, SandboxSearchSortField
SandboxSearchSortField ==
  {"name", "state", "cpu", "memory", "disk", "lastActivityAt", "createdAt"}

DEFAULT_SANDBOX_SEARCH_SORT_FIELD == "createdAt"
DEFAULT_SANDBOX_SEARCH_SORT_DIRECTION == "desc"

(***************************************************************************)
(* The index: its mapping (createIndex) and the documents it holds.  The   *)
(* adapter only reads documents; Doc(i) is the i-th document of the        *)
(* corpus, built so that sort values tie, organizations differ and every   *)
(* combination of state = ERROR and desiredState = DESTROYED occurs.       *)
(***************************************************************************)
KeywordFields ==
  {"id", "organizationId", "name", "region", "runnerId", "class", "state",
   "desiredState", "snapshot", "osUser", "backupState"}
IntegerFields ==
  {"cpu", "gpu", "mem", "disk", "autoStopInterval", "autoArchiveInterval",
   "autoDeleteInterval"}
DateFields == {"createdAt", "updatedAt", "lastActivityAt"}
BooleanFields == {"recoverable", "public"}

\* mappings.properties of the index; errorReason is stored, not indexed
MappingFields ==
  KeywordFields \cup IntegerFields \cup DateFields \cup BooleanFields \cup {"labels"}

Doc(i) ==
  [ id |-> IF i % 2 = 1 THEN <<96 + i>> ELSE <<96 + i, 49>>,
    organizationId |-> IF i % 5 = 0 THEN "org-b" ELSE "org-a",
    name |-> IF i % 3 = 0 THEN <<110>> ELSE <<110, 48 + (i % 3)>>,
    region |-> IF i % 2 = 0 THEN "eu" ELSE "us",
    state |-> IF i % 4 \in {1, 2} THEN STATE_ERROR
              ELSE IF i % 4 = 3 THEN STATE_STARTED ELSE STATE_STOPPED,
    desiredState |-> IF i % 4 \in {1, 3} THEN DESIRED_DESTROYED ELSE DESIRED_STARTED,
    snapshot |-> IF (i \div 2) % 2 = 0 THEN "snap-a" ELSE "snap-b",
    recoverable |-> (i % 2 = 0),
    public |-> (i % 3 = 1),
    cpu |-> i % 3,
    mem |-> 8 * (1 + (i % 2)),
    disk |-> 5 * ((i \div 2) % 3),
    labels |-> IF i % 2 = 0 THEN [k \in {"env"} |-> "dev"]
               ELSE [k \in {"env", "team"} |-> IF k = "env" THEN "prod" ELSE "x"],
    createdAt |-> 10 + (i \div 2),
    lastActivityAt |-> 20 + (i % 4) ]

Corpus == {Doc(i) : i \in 1..MaxDocs}

\* Date.prototype.toISOString / the date format of the index: a timestamp
\* is written as a fixed-width digit string and read back from one
toISOString(t) == Digits(t)
parseDate(s) == NumberOf(s)

\* hit._source[field]: the stored JSON value of a document's field
Source(d, field) ==
  CASE field \in {"id", "name", "state"} -> JStr(d[field])
    [] field \in {"cpu", "mem", "disk"} -> JNum(d[field])
    [] field \in {"createdAt", "lastActivityAt"} -> JStr(toISOString(d[field]))
    [] OTHER -> JUndefined

(***************************************************************************)
(* Filters (SandboxSearchFilters).  filters.given = FALSE is an absent     *)
(* filters argument; a field outside DOMAIN filters.f is undefined.        *)
(***************************************************************************)
NoFilters == [given |-> FALSE, f |-> <<>>]
Filters(f) == [given |-> TRUE, f |-> f]

\* filters?.k !== undefined
Defined(filters, k) == filters.given /\ k \in DOMAIN filters.f

\* filters?.k is truthy, for a string or an array (empty is falsy)
NonEmpty(filters, k) == Defined(filters, k) /\ filters.f[k] # <<>>

(***************************************************************************)
(* buildSearchQuery: the clauses pushed on must and mustNot, in the        *)
(* order of the code.                                                      *)
(***************************************************************************)
Term(field, value) == [kind |-> "term", field |-> field, value |-> value]
Prefix(field, value) == [kind |-> "prefix", field |-> field, value |-> value]
Terms(field, values) == [kind |-> "terms", field |-> field, values |-> values]
Range(field, body) == [kind |-> "range", field |-> field, body |-> body]
Bool(must) == [kind |-> "bool", must |-> must]
LabelTerm(key, value) == [kind |-> "term", field |-> "labels", key |-> key, value |-> value]

\* a bound tested for truthiness: 0 counts as not supplied
BoundSuppliedTruthy(filters, key) == Defined(filters, key) /\ filters.f[key] # 0

\* filters.minX !== undefined, the test that governs one bound of a range
BoundSupplied(filters, key) == Defined(filters, key)

\* { ...(min !== undefined && { gte: min }), ...(max !== undefined && { lte: max }) }
RangeBody(filters, minKey, maxKey) ==
  [b \in (IF BoundSupplied(filters, minKey) THEN {"gte"} ELSE {})
         \cup (IF BoundSupplied(filters, maxKey) THEN {"lte"} ELSE {})
     |-> IF b = "gte" THEN filters.f[minKey] ELSE filters.f[maxKey]]

\* the numeric range clause of one field: pushed when either bound is defined
NumericRangeClause(filters, field, minKey, maxKey) ==
  IF BoundSupplied(filters, minKey) \/ BoundSupplied(filters, maxKey)
    THEN <<Range(field, RangeBody(filters, minKey, maxKey))>>
    ELSE <<>>

\* the same for the two date ranges: a Date is truthy, and a bound goes
\* through toISOString
DateRangeBody(filters, afterKey, beforeKey) ==
  [b \in (IF Defined(filters, afterKey) THEN {"gte"} ELSE {})
         \cup (IF Defined(filters, beforeKey) THEN {"lte"} ELSE {})
     |-> IF b = "gte" THEN toISOString(filters.f[afterKey])
                      ELSE toISOString(filters.f[beforeKey])]

DateRangeClause(filters, field, afterKey, beforeKey) ==
  IF Defined(filters, afterKey) \/ Defined(filters, beforeKey)
    THEN <<Range(field, DateRangeBody(filters, afterKey, beforeKey))>>
    ELSE <<>>

\* for (const [key, value] of Object.entries(filters.labels)): filters.labels
\* is held as its entries, <<key, value>> pairs in insertion order
LabelClauses(entries) ==
  [i \in 1..Len(entries) |-> LabelTerm(entries[i][1], entries[i][2])]

\* the exclusion with its two terms as separate must_not clauses
ExclusionClausesEither(filters) ==
  IF ~(Defined(filters, "includeErroredDeleted") /\ filters.f["includeErroredDeleted"])
    THEN <<Term("state", STATE_ERROR), Term("desiredState", DESIRED_DESTROYED)>>
    ELSE <<>>

\* the mustNot array: the errored-and-deleted exclusion
ExclusionClauses(filters) ==
  IF ~(Defined(filters, "includeErroredDeleted") /\ filters.f["includeErroredDeleted"])
    THEN <<Bool(<<Term("state", STATE_ERROR), Term("desiredState", DESIRED_DESTROYED)>>)>>
    ELSE <<>>

\* no organization clause
OrganizationClausesNone(organizationId) == <<>>

\* must.push({ term: { organizationId } })
OrganizationClauses(organizationId) == <<Term("organizationId", organizationId)>>

buildSearchQuery(organizationId, filters) ==
  [ must |->
         OrganizationClauses(organizationId)
      \o (IF NonEmpty(filters, "id")
            THEN <<Prefix("id", toLowerCase(filters.f["id"]))>> ELSE <<>>)
      \o (IF NonEmpty(filters, "name")
            THEN <<Prefix("name", toLowerCase(filters.f["name"]))>> ELSE <<>>)
      \o (IF NonEmpty(filters, "states")
            THEN <<Terms("state", filters.f["states"])>> ELSE <<>>)
      \o (IF NonEmpty(filters, "snapshots")
            THEN <<Terms("snapshot", filters.f["snapshots"])>> ELSE <<>>)
      \o (IF NonEmpty(filters, "regionIds")
            THEN <<Terms("region", filters.f["regionIds"])>> ELSE <<>>)
      \o NumericRangeClause(filters, "cpu", "minCpu", "maxCpu")
      \o NumericRangeClause(filters, "mem", "minMemoryGiB", "maxMemoryGiB")
      \o NumericRangeClause(filters, "disk", "minDiskGiB", "maxDiskGiB")
      \o (IF Defined(filters, "isPublic")
            THEN <<Term("public", filters.f["isPublic"])>> ELSE <<>>)
      \o (IF Defined(filters, "isRecoverable")
            THEN <<Term("recoverable", filters.f["isRecoverable"])>> ELSE <<>>)
      \o DateRangeClause(filters, "createdAt", "createdAtAfter", "createdAtBefore")
      \o DateRangeClause(filters, "lastActivityAt", "lastEventAfter", "lastEventBefore")
      \o (IF Defined(filters, "labels")
            THEN LabelClauses(filters.f["labels"]) ELSE <<>>),
    \* mustNot.length > 0 ? mustNot : undefined; the empty sequence is undefined
    must_not |-> ExclusionClauses(filters) ]

(***************************************************************************)
(* The index service behind client.search (executeSearch): boolean         *)
(* composition of term, prefix, terms and range clauses, a sort with a     *)
(* secondary key, and the search_after resume position.                    *)
(***************************************************************************)
RECURSIVE ClauseMatch(_, _)
ClauseMatch(d, c) ==
  CASE c.kind = "term" ->
         IF c.field = "labels"
           THEN c.key \in DOMAIN d.labels /\ d.labels[c.key] = c.value
           ELSE d[c.field] = c.value
    [] c.kind = "prefix" -> IsPrefix(c.value, d[c.field])
    [] c.kind = "terms" -> \E i \in 1..Len(c.values) : c.values[i] = d[c.field]
    [] c.kind = "range" ->
         LET bound(b) == IF c.field \in DateFields THEN parseDate(c.body[b]) ELSE c.body[b]
         IN /\ "gte" \in DOMAIN c.body => d[c.field] >= bound("gte")
            /\ "lte" \in DOMAIN c.body => d[c.field] <= bound("lte")
    [] c.kind = "bool" -> \A i \in 1..Len(c.must) : ClauseMatch(d, c.must[i])

QueryMatch(d, query) ==
  /\ \A i \in 1..Len(query.must) : ClauseMatch(d, query.must[i])
  /\ \A i \in 1..Len(query.must_not) : ~ClauseMatch(d, query.must_not[i])

\* the order of one field's values: byte order for a keyword, numeric otherwise
FieldLess(field, x, y) == IF field \in KeywordFields THEN SeqLess(x, y) ELSE x < y

\* a document's sort values under a sort specification
KeyOf(d, sort) == [i \in 1..Len(sort) |-> d[sort[i].field]]

RECURSIVE KeyBefore(_, _, _, _)
\* key k1 comes strictly before key k2, comparing from sort level i on
KeyBefore(k1, k2, sort, i) ==
  IF i > Len(sort) THEN FALSE
  ELSE IF k1[i] = k2[i] THEN KeyBefore(k1, k2, sort, i + 1)
  ELSE IF sort[i].order = "asc" THEN FieldLess(sort[i].field, k1[i], k2[i])
  ELSE FieldLess(sort[i].field, k2[i], k1[i])

RECURSIVE SortDocs(_, _)
SortDocs(S, sort) ==
  IF S = {} THEN <<>>
  ELSE LET first == CHOOSE d \in S :
                      \A e \in S \ {d} : ~KeyBefore(KeyOf(e, sort), KeyOf(d, sort), sort, 1)
       IN <<first>> \o SortDocs(S \ {first}, sort)

\* a search_after value fits a sort level: a string for a keyword, a number
\* for an integer, a date string or a number for a date
PositionFits(v, field) ==
  IF field \in KeywordFields THEN v.t = "str"
  ELSE IF field \in IntegerFields THEN v.t = "num"
  ELSE \/ v.t = "num"
       \/ v.t = "str" /\ v.s # <<>> /\ \A i \in 1..Len(v.s) : IsDigit(v.s[i])

PositionValid(sa, sort) ==
  /\ sa.t = "arr"
  /\ Len(sa.a) = Len(sort)
  /\ \A i \in 1..Len(sort) : PositionFits(sa.a[i], sort[i].field)

PositionKey(sa, sort) ==
  [i \in 1..Len(sort) |->
     IF sa.a[i].t = "num" THEN sa.a[i].n
     ELSE IF sort[i].field \in DateFields THEN parseDate(sa.a[i].s)
     ELSE sa.a[i].s]

NoSearchAfter == [given |-> FALSE, v |-> JNull]

\* the service's answer: a rejected request (an unmapped sort field, a
\* malformed search_after) or the first size hits after the position
ServiceSearch(docs, body) ==
  IF \E i \in 1..Len(body.sort) : body.sort[i].field \notin MappingFields
    THEN [ok |-> FALSE, hits |-> <<>>]
  ELSE IF body.search_after.given /\ ~PositionValid(body.search_after.v, body.sort)
    THEN [ok |-> FALSE, hits |-> <<>>]
  ELSE LET after(d) ==
             body.search_after.given =>
               KeyBefore(PositionKey(body.search_after.v, body.sort),
                         KeyOf(d, body.sort), body.sort, 1)
           matching == {d \in docs : QueryMatch(d, body.query) /\ after(d)}
       IN [ok |-> TRUE, hits |-> Take(SortDocs(matching, body.sort), body.size)]

(***************************************************************************)
(* getSortFieldMapping: a lookup in the fieldMapping table.  A key the     *)
(* table does not hold yields undefined, which as a property key is the    *)
(* string "undefined" ({ [undefined]: ... } and _source[undefined]).       *)
(***************************************************************************)
\* the logical name used as the physical one
getSortFieldMappingIdentity(sortField) ==
  IF sortField \in SandboxSearchSortField THEN sortField ELSE "undefined"

getSortFieldMapping(sortField) ==
  CASE sortField = "name" -> "name"
    [] sortField = "state" -> "state"
    [] sortField = "cpu" -> "cpu"
    [] sortField = "memory" -> "mem"
    [] sortField = "disk" -> "disk"
    [] sortField = "lastActivityAt" -> "lastActivityAt"
    [] sortField = "createdAt" -> "createdAt"
    [] OTHER -> "undefined"

(***************************************************************************)
(* buildSearchBody.                                                        *)
(***************************************************************************)
NoCursor == [given |-> FALSE, tok |-> <<>>]
Cursor(tok) == [given |-> TRUE, tok |-> tok]

\* the id tie-break following the primary direction
SortSpecIdFollows(opensearchSortField, sortDirection) ==
  << [field |-> opensearchSortField, order |-> sortDirection],
     [field |-> "id", order |-> sortDirection] >>

\* sort: [{ [opensearchSortField]: { order: sortDirection } }, { id: { order: 'desc' } }]
SortSpec(opensearchSortField, sortDirection) ==
  << [field |-> opensearchSortField, order |-> sortDirection],
     [field |-> "id", order |-> "desc"] >>

\* size: limit, without the extra hit
SearchSizeNoExtra(limit) == limit

\* size: limit + 1
SearchSize(limit) == limit + 1

\* JSON.parse(Buffer.from(cursor, 'base64').toString())
decodeCursor(tok) == JSONparse(fromBase64(tok))

NoBody ==
  [ query |-> [must |-> <<>>, must_not |-> <<>>], sort |-> <<>>, size |-> 0,
    search_after |-> NoSearchAfter ]

\* thrown = TRUE is the BadRequestException of the catch block
buildSearchBody(query, limit, cursor, sortField, sortDirection) ==
  LET opensearchSortField == getSortFieldMapping(sortField)
      searchBody == [ query |-> query,
                      sort |-> SortSpec(opensearchSortField, sortDirection),
                      size |-> SearchSize(limit),
                      search_after |-> NoSearchAfter ]
  IN IF cursor.given /\ cursor.tok # <<>>
       THEN LET parsed == decodeCursor(cursor.tok)
            IN IF parsed.ok
                 THEN [ thrown |-> FALSE,
                        body |-> [searchBody EXCEPT
                                    !.search_after = [given |-> TRUE, v |-> parsed.v]] ]
                 ELSE [thrown |-> TRUE, body |-> NoBody]
       ELSE [thrown |-> FALSE, body |-> searchBody]

(***************************************************************************)
(* processSearchResponse and mapSourceToSandbox.                           *)
(***************************************************************************)
\* hits.length >= limit
hasMoreAtLimit(hits, limit) == Len(hits) >= limit

\* hits.length > limit
hasMore(hits, limit) == Len(hits) > limit

\* the item the next cursor is built from: items[items.length - 1]
lastItem(items) == items[Len(items)]

\* Buffer.from(JSON.stringify([lastItem._source[field], lastItem._source.id])).toString('base64')
encodeCursor(item, opensearchSortField) ==
  toBase64(JSONstringify(JArr(<<Source(item, opensearchSortField), Source(item, "id")>>)))

\* the entity of a stored document: the timestamps go through new Date(...)
mapSourceToSandbox(d) ==
  [d EXCEPT !.createdAt = parseDate(Source(d, "createdAt").s),
            !.lastActivityAt = parseDate(Source(d, "lastActivityAt").s)]

processSearchResponse(hits, limit, sortField) ==
  LET more == hasMore(hits, limit)
      items == IF more THEN SubSeq(hits, 1, limit) ELSE hits
  IN [ items |-> [i \in 1..Len(items) |-> mapSourceToSandbox(items[i])],
       nextCursor |->
         IF more /\ Len(items) > 0
           THEN Cursor(encodeCursor(lastItem(items), getSortFieldMapping(sortField)))
           ELSE NoCursor ]

(***************************************************************************)
(* search: the whole handler.  status is "ok" or the error thrown; issued  *)
(* tells whether a query went to the index service.                        *)
(***************************************************************************)
\* filters?.sort || DEFAULT_SANDBOX_SEARCH_SORT_FIELD
SortFieldOf(filters) ==
  IF Defined(filters, "sort") /\ filters.f["sort"] # ""
    THEN filters.f["sort"] ELSE DEFAULT_SANDBOX_SEARCH_SORT_FIELD

\* filters?.order || DEFAULT_SANDBOX_SEARCH_SORT_DIRECTION
SortDirectionOf(filters) ==
  IF Defined(filters, "order") /\ filters.f["order"] # ""
    THEN filters.f["order"] ELSE DEFAULT_SANDBOX_SEARCH_SORT_DIRECTION

Failure(status, issued, body) ==
  [status |-> status, items |-> <<>>, nextCursor |-> NoCursor, issued |-> issued, body |-> body]

search(docs, organizationId, cursor, limit, filters) ==
  IF organizationId = "" THEN Failure("Error", FALSE, NoBody)
  ELSE LET query == buildSearchQuery(organizationId, filters)
           sortField == SortFieldOf(filters)
           sortDirection == SortDirectionOf(filters)
           built == buildSearchBody(query, limit, cursor, sortField, sortDirection)
       IN IF built.thrown THEN Failure("BadRequestException", FALSE, NoBody)
          ELSE LET response == ServiceSearch(docs, built.body)
               IN IF ~response.ok THEN Failure("ResponseError", TRUE, built.body)
                  ELSE LET page == processSearchResponse(response.hits, limit, sortField)
                       IN [ status |-> "ok", items |-> page.items,
                            nextCursor |-> page.nextCursor, issued |-> TRUE,
                            body |-> built.body ]

(***************************************************************************)
(* createIndex, against the index administration interface                 *)
(* (indices.exists, indices.create).  The service answers a call           *)
(* atomically, at some instant between the call and its return; a call     *)
(* may also fail for a reason of the service's own.                        *)
(***************************************************************************)
Instances == 1..NumInstances

\* client.indices.exists: the answer at the instant the service handles it
ServiceExists(exists) == exists

\* client.indices.create: created, or refused because the index is there
ServiceCreate(exists) ==
  IF exists THEN "resource_already_exists_exception" ELSE "created"

\* a catch block that rethrows every error
SwallowedByCatchNever(errorType) == FALSE

\* the catch block: TRUE (swallow and return) for the already-exists error
SwallowedByCatch(errorType) == errorType = "resource_already_exists_exception"

(***************************************************************************)
(* State.                                                                  *)
(***************************************************************************)
VARIABLES
  docs,            \* the documents of the index
  organizationId,  \* the caller's organization, fixed for a pagination run
  filters,         \* the caller's filters, fixed for a pagination run
  limit,           \* the caller's page size, fixed for a pagination run
  cursor,          \* the cursor passed to the last search call
  result,          \* what the last search call returned or threw
  seen,            \* the items of every page returned so far, in order
  calls,           \* search calls made
  queries,         \* queries issued to the index service
  phase,           \* idle, paging, done, failed, forged
  indexExists,     \* the index service holds the target index
  creations,       \* indices.create calls that created the index
  faulted,         \* the service has failed a call for a reason of its own
  pc,              \* each instance's position in onModuleInit / createIndex
  answer           \* each instance's pending answer from the service

searchVars == <<docs, organizationId, filters, limit, cursor, result, seen, calls, queries, phase>>
indexVars == <<indexExists, creations, faulted, pc, answer>>
vars == <<docs, organizationId, filters, limit, cursor, result, seen, calls, queries, phase,
          indexExists, creations, faulted, pc, answer>>

(***************************************************************************)
(* The inputs of a pagination run.                                         *)
(***************************************************************************)
\* a caller's organization id; the empty string is a missing one
Organizations == {"org-a", "org-b", ""}

\* a field that is absent or holds one of vals
Opt(key, vals) == {<<>>} \cup {[k \in {key} |-> v] : v \in vals}

\* a field that holds one of vals
One(key, vals) == {[k \in {key} |-> v] : v \in vals}

\* filters.sort: the known fields, an unknown one and the empty string
SortChoices == SandboxSearchSortField \cup {"priority", ""}

\* the exclusion switch, the sort field and the direction, in every combination
CoreFilters ==
  { a @@ b @@ c : a \in Opt("includeErroredDeleted", BOOLEAN),
                  b \in Opt("sort", SortChoices),
                  c \in Opt("order", {"asc", "desc"}) }

\* the numeric ranges with the exclusion switch, in every combination
RangeFilters ==
  { a @@ c1 @@ c2 @@ m1 @@ m2 @@ d1 @@ d2 :
      a \in Opt("includeErroredDeleted", BOOLEAN),
      c1 \in Opt("minCpu", {0, 1}), c2 \in Opt("maxCpu", {0, 2}),
      m1 \in Opt("minMemoryGiB", {16}), m2 \in Opt("maxMemoryGiB", {8}),
      d1 \in Opt("minDiskGiB", {5}), d2 \in Opt("maxDiskGiB", {5}) }

\* every other filter field, one at a time
SingleFilters ==
  One("id", {<<97>>, <<66>>, <<>>}) \cup
  One("name", {<<110, 49>>, <<78>>, <<>>}) \cup
  One("states", {<<STATE_ERROR>>, <<STATE_STARTED, STATE_STOPPED>>, <<>>}) \cup
  One("snapshots", {<<"snap-a">>, <<>>}) \cup
  One("regionIds", {<<"eu">>, <<"eu", "us">>}) \cup
  One("isPublic", BOOLEAN) \cup
  One("isRecoverable", BOOLEAN) \cup
  One("createdAtAfter", {12}) \cup
  One("createdAtBefore", {12}) \cup
  { a @@ b : a \in One("lastEventAfter", {21}), b \in Opt("lastEventBefore", {22}) } \cup
  One("labels", {<< <<"env", "dev">> >>, << <<"env", "prod">>, <<"team", "x">> >>, <<>>})

FilterChoices ==
  {NoFilters} \cup {Filters(f) : f \in CoreFilters \cup RangeFilters \cup SingleFilters}

\* cursor tokens that no response of the interface produced: the base64 of
\* 5, {}, [1], [1,"a","b"], "ab", null, [1, and x; a lone symbol; the empty
\* token; and the well-formed ["11","c"] and [1,"c"]
ForgedTokens ==
  { toBase64(<<53>>), toBase64(<<123, 125>>), toBase64(<<91, 49, 93>>),
    toBase64(<<91, 49, 44, 34, 97, 34, 44, 34, 98, 34, 93>>),
    toBase64(<<34, 97, 98, 34>>), toBase64(<<110, 117, 108, 108>>),
    toBase64(<<91, 49, 44>>), toBase64(<<120>>), <<30>>, <<>>,
    toBase64(<<91, 34, 49, 49, 34, 44, 34, 99, 34, 93>>),
    toBase64(<<91, 49, 44, 34, 99, 34, 93>>) }

NoResult == Failure("none", FALSE, NoBody)

InitIndexIdle ==
  /\ indexExists = FALSE
  /\ creations = 0
  /\ faulted = FALSE
  /\ pc = [i \in Instances |-> "start"]
  /\ answer = [i \in Instances |-> "none"]

InitSearchIdle ==
  /\ docs = Corpus
  /\ cursor = NoCursor
  /\ result = NoResult
  /\ seen = <<>>
  /\ calls = 0
  /\ queries = 0
  /\ phase = "idle"

\* a caller about to page through the index with some fixed request
Init ==
  /\ InitSearchIdle
  /\ organizationId \in Organizations
  /\ filters \in FilterChoices
  /\ limit \in 1..MaxLimit
  /\ InitIndexIdle

(***************************************************************************)
(* The caller's steps: each is one whole search call.                      *)
(***************************************************************************)
Record(r, c, nextPhase) ==
  /\ cursor' = c
  /\ result' = r
  /\ seen' = seen \o r.items
  /\ calls' = calls + 1
  /\ queries' = queries + (IF r.issued THEN 1 ELSE 0)
  /\ phase' = nextPhase
  /\ UNCHANGED <<docs, organizationId, filters, limit>>
  /\ UNCHANGED indexVars

PhaseAfter(r) ==
  IF r.status # "ok" THEN "failed" ELSE IF r.nextCursor.given THEN "paging" ELSE "done"

\* search(organizationId, undefined, limit, filters)
FirstPage ==
  /\ phase = "idle"
  /\ LET r == search(docs, organizationId, NoCursor, limit, filters)
     IN Record(r, NoCursor, PhaseAfter(r))

\* search(organizationId, nextCursor of the previous response, limit, filters)
NextPage ==
  /\ phase = "paging"
  /\ LET r == search(docs, organizationId, result.nextCursor, limit, filters)
     IN Record(r, result.nextCursor, PhaseAfter(r))

\* search(organizationId, token, limit, filters) with a token of the caller's making
ForgedCursor ==
  /\ phase = "idle"
  /\ \E tok \in ForgedTokens :
       Record(search(docs, organizationId, Cursor(tok), limit, filters), Cursor(tok), "forged")

Next == FirstPage \/ NextPage \/ ForgedCursor

Spec == Init /\ [][Next]_vars

(***************************************************************************)
(* The steps of onModuleInit / createIndex of instance i, and the index    *)
(* service's handling of its two calls.                                    *)
(***************************************************************************)
Goto(i, label) == pc' = [pc EXCEPT ![i] = label]

\* await this.client.indices.exists(...): the call leaves
CallExists(i) ==
  /\ pc[i] = "start"
  /\ Goto(i, "existsCalled")
  /\ UNCHANGED <<indexExists, creations, faulted, answer>>
  /\ UNCHANGED searchVars

\* the service handles indices.exists
HandleExists(i) ==
  /\ pc[i] = "existsCalled"
  /\ \/ /\ answer' = [answer EXCEPT ![i] = IF ServiceExists(indexExists) THEN "true" ELSE "false"]
        /\ UNCHANGED faulted
     \/ /\ answer' = [answer EXCEPT ![i] = "fault"]
        /\ faulted' = TRUE
  /\ Goto(i, "existsAnswered")
  /\ UNCHANGED <<indexExists, creations>>
  /\ UNCHANGED searchVars

\* if (exists.body) return; otherwise await this.client.indices.create(...)
AfterExists(i) ==
  /\ pc[i] = "existsAnswered"
  /\ Goto(i, CASE answer[i] = "true" -> "returned"
               [] answer[i] = "false" -> "createCalled"
               [] OTHER -> "catch")
  /\ UNCHANGED <<indexExists, creations, faulted, answer>>
  /\ UNCHANGED searchVars

\* the service handles indices.create
HandleCreate(i) ==
  /\ pc[i] = "createCalled"
  /\ \/ /\ answer' = [answer EXCEPT ![i] = ServiceCreate(indexExists)]
        /\ indexExists' = TRUE
        /\ creations' = IF indexExists THEN creations ELSE creations + 1
        /\ UNCHANGED faulted
     \/ /\ answer' = [answer EXCEPT ![i] = "fault"]
        /\ faulted' = TRUE
        /\ UNCHANGED <<indexExists, creations>>
  /\ Goto(i, "createAnswered")
  /\ UNCHANGED searchVars

\* the create call returns, or throws into the catch block
AfterCreate(i) ==
  /\ pc[i] = "createAnswered"
  /\ Goto(i, IF answer[i] = "created" THEN "returned" ELSE "catch")
  /\ UNCHANGED <<indexExists, creations, faulted, answer>>
  /\ UNCHANGED searchVars

\* catch (error): return on resource_already_exists_exception, else throw
Catch(i) ==
  /\ pc[i] = "catch"
  /\ Goto(i, IF SwallowedByCatch(answer[i]) THEN "returned" ELSE "failed")
  /\ UNCHANGED <<indexExists, creations, faulted, answer>>
  /\ UNCHANGED searchVars

\* onModuleInit after createIndex: logs that the adapter is initialized
Initialized(i) ==
  /\ pc[i] = "returned"
  /\ Goto(i, "initialized")
  /\ UNCHANGED <<indexExists, creations, faulted, answer>>
  /\ UNCHANGED searchVars

\* instances starting up, against a service that holds the index or not
InitIndex ==
  /\ InitSearchIdle
  /\ organizationId = "org-a"
  /\ filters = NoFilters
  /\ limit = 1
  /\ indexExists \in BOOLEAN
  /\ creations = 0
  /\ faulted = FALSE
  /\ pc = [i \in Instances |-> "start"]
  /\ answer = [i \in Instances |-> "none"]

NextIndex ==
  \E i \in Instances :
    \/ CallExists(i)
    \/ HandleExists(i)
    \/ AfterExists(i)
    \/ HandleCreate(i)
    \/ AfterCreate(i)
    \/ Catch(i)
    \/ Initialized(i)

SpecIndex == InitIndex /\ [][NextIndex]_vars

(***************************************************************************)
(* What the properties below speak of, stated without the adapter's code.  *)
(***************************************************************************)
Ids(items) == [i \in 1..Len(items) |-> items[i].id]

\* the sort the caller asked for
RequestedSortField ==
  IF filters.given /\ "sort" \in DOMAIN filters.f /\ filters.f["sort"] # ""
    THEN filters.f["sort"] ELSE DEFAULT_SANDBOX_SEARCH_SORT_FIELD

RequestedDirection ==
  IF filters.given /\ "order" \in DOMAIN filters.f
    THEN filters.f["order"] ELSE DEFAULT_SANDBOX_SEARCH_SORT_DIRECTION

\* the fixed table of the sort resolver: memory is mem, the rest themselves
PhysicalName(logicalField) == IF logicalField = "memory" THEN "mem" ELSE logicalField

\* primary field in the requested direction, then id descending
RequestedOrder ==
  << [field |-> PhysicalName(RequestedSortField), order |-> RequestedDirection],
     [field |-> "id", order |-> "desc"] >>

\* the caller opted in to errored-and-deleted documents
OptedIn ==
  filters.given /\ "includeErroredDeleted" \in DOMAIN filters.f
    /\ filters.f["includeErroredDeleted"] = TRUE

ErroredDeleted(d) == d.state = STATE_ERROR /\ d.desiredState = DESIRED_DESTROYED

\* the documents the query of the last call matches
Matching == {d \in docs : QueryMatch(d, result.body.query)}

\* the documents that match every clause but the exclusion
MatchingButExclusion ==
  {d \in docs : QueryMatch(d, [must |-> result.body.query.must, must_not |-> <<>>])}

\* the matching documents after the position the last call resumed from
Remaining ==
  IF ~result.body.search_after.given THEN Matching
  ELSE {d \in Matching :
          KeyBefore(PositionKey(result.body.search_after.v, RequestedOrder),
                    KeyOf(d, RequestedOrder), RequestedOrder, 1)}

\* a run that began without a cursor and followed each nextCursor
ProperRun == phase \in {"paging", "done"}

\* a token that reverses to a well-formed two-element sequence
WellFormedPair(tok) ==
  LET r == JSONparse(fromBase64(tok))
  IN r.ok /\ r.v.t = "arr" /\ Len(r.v.a) = 2

\* the numeric range filters: index field, min key, max key
NumericRangeFields ==
  { <<"cpu", "minCpu", "maxCpu">>,
    <<"mem", "minMemoryGiB", "maxMemoryGiB">>,
    <<"disk", "minDiskGiB", "maxDiskGiB">> }

\* the caller supplied this bound
Supplied(key) == filters.given /\ key \in DOMAIN filters.f

\* the document lies within the supplied bounds of range r
Admits(d, r) ==
  /\ Supplied(r[2]) => d[r[1]] >= filters.f[r[2]]
  /\ Supplied(r[3]) => d[r[1]] <= filters.f[r[3]]

\* the positions of the range clauses on a field in the last query
RangeClausesOn(field) ==
  {i \in 1..Len(result.body.query.must) :
     result.body.query.must[i].kind = "range" /\ result.body.query.must[i].field = field}

\* instance i has left onModuleInit, with or without an error
Terminated(i) == pc[i] \in {"initialized", "failed"}

PageBoundary ==
  result.status = "ok" =>
    LET N == Cardinality(Remaining)
    IN IF N <= limit
         THEN Len(result.items) = N /\ ~result.nextCursor.given
         ELSE Len(result.items) = limit /\ result.nextCursor.given

\* a follow-up call that found exactly limit documents left
PageBoundaryWitness ==
  /\ phase = "done"
  /\ calls = 2
  /\ limit = MaxLimit
  /\ Cardinality(Remaining) = limit
  /\ Len(result.items) = limit

(***************************************************************************)
(* C3: a document with state = ERROR and desiredState = DESTROYED that     *)
(* matches every other clause is never returned unless the caller opted in *)
(* (filters absent, the switch unset or false), and is returned when the   *)
(* caller did; a document with only one of the two values is not excluded. *)
(***************************************************************************)
DefaultExclusion ==
  /\ \A i \in 1..Len(seen) : ErroredDeleted(seen[i]) => OptedIn
  /\ phase = "done" =>
       \A d \in MatchingButExclusion :
         (\E i \in 1..Len(seen) : seen[i].id = d.id) <=> (ErroredDeleted(d) => OptedIn)

\* a finished run without opt-in that left an errored-and-deleted document
\* out and returned one that is errored but not deleted
DefaultExclusionWitness ==
  /\ phase = "done"
  /\ ~OptedIn
  /\ \E d \in MatchingButExclusion : ErroredDeleted(d)
  /\ \E i \in 1..Len(seen) :
       seen[i].state = STATE_ERROR /\ seen[i].desiredState # DESIRED_DESTROYED
  /\ \E i \in 1..Len(seen) :
       seen[i].state # STATE_ERROR /\ seen[i].desiredState = DESIRED_DESTROYED

(***************************************************************************)
(* C4: whatever the filters, the compiled query holds the exact-equality   *)
(* clause on organizationId in its top-level AND, and every item returned  *)
(* belongs to the caller's organization.                                   *)
(***************************************************************************)
OrganizationScope ==
  /\ result.issued =>
       \E i \in 1..Len(result.body.query.must) :
         LET c == result.body.query.must[i]
         IN c.kind = "term" /\ c.field = "organizationId" /\ c.value = organizationId
  /\ \A i \in 1..Len(seen) : seen[i].organizationId = organizationId

\* a finished run with no filters object, while the index holds a document
\* of another organization that no other clause rules out
OrganizationScopeWitness ==
  /\ phase = "done"
  /\ ~filters.given
  /\ Len(seen) > 0
  /\ \E d \in docs : d.organizationId # organizationId /\ ~ErroredDeleted(d)

(***************************************************************************)
(* C6: every request sorts by the resolved primary field in the requested  *)
(* direction and then by id descending, so two returned documents with an  *)
(* equal primary value come with the larger id first, on one page or       *)
(* across pages.                                                           *)
(***************************************************************************)
TieBreak ==
  /\ result.issued =>
       /\ Len(result.body.sort) = 2
       /\ result.body.sort[1].order = RequestedDirection
       /\ result.body.sort[2] = [field |-> "id", order |-> "desc"]
  /\ ProperRun =>
       /\ result.body.sort[1].field = PhysicalName(RequestedSortField)
       /\ \A i, j \in 1..Len(seen) :
            i < j /\ seen[i][PhysicalName(RequestedSortField)]
                       = seen[j][PhysicalName(RequestedSortField)]
              => SeqLess(seen[j].id, seen[i].id)

\* an ascending run in which a tie spans two pages and another lies within one
TieBreakWitness ==
  /\ phase = "done"
  /\ RequestedDirection = "asc"
  /\ LET f == PhysicalName(RequestedSortField)
     IN /\ \E i \in 1..limit : \E j \in (limit + 1)..Len(seen) : seen[i][f] = seen[j][f]
        /\ \E i, j \in 1..Min2(limit, Len(seen)) : i < j /\ seen[i][f] = seen[j][f]

(***************************************************************************)
(* C7: decoding a cursor gives back the pair it was encoded from, for the   *)
(* sort value and id of every document returned; the nextCursor of a       *)
(* response decodes to [sort value, id] of the last item of its page, and  *)
(* the search_after of the call that resumes from it is that same pair.    *)
(***************************************************************************)
CursorRoundTrip ==
  LET f == PhysicalName(RequestedSortField)
      pair(item) == JArr(<<Source(item, f), Source(item, "id")>>)
  IN /\ \A i \in 1..Len(seen) :
          ProperRun => decodeCursor(encodeCursor(seen[i], f)) = ParseOk(pair(seen[i]),
                         Len(JSONstringify(pair(seen[i]))) + 1)
     /\ result.status = "ok" /\ result.nextCursor.given =>
          /\ decodeCursor(result.nextCursor.tok).ok
          /\ decodeCursor(result.nextCursor.tok).v = pair(result.items[Len(result.items)])
     /\ ProperRun /\ calls >= 2 =>
          /\ result.body.search_after.given
          /\ result.body.search_after.v = pair(seen[Len(seen) - Len(result.items)])

\* a resumed call whose position holds a string of two or more characters
\* and whose response carries a further cursor
CursorRoundTripWitness ==
  /\ phase = "paging"
  /\ calls >= 2
  /\ result.body.search_after.v.a[1].t = "str"
  /\ Len(result.body.search_after.v.a[1].s) >= 2
  /\ Len(result.nextCursor.tok) > 0

(***************************************************************************)
(* C8: a search with a cursor token that cannot be reversed to a           *)
(* well-formed two-element sequence fails with the invalid-cursor error    *)
(* (BadRequestException) and issues no query to the index service.         *)
(***************************************************************************)
InvalidCursorRejected ==
  phase = "forged" /\ organizationId # "" /\ cursor.tok # <<>> /\ ~WellFormedPair(cursor.tok)
    => result.status = "BadRequestException" /\ queries = 0

NumericRanges ==
  result.issued =>
    /\ \A r \in NumericRangeFields :
         /\ Cardinality(RangeClausesOn(r[1])) = IF Supplied(r[2]) \/ Supplied(r[3]) THEN 1 ELSE 0
         /\ \A i \in RangeClausesOn(r[1]) :
              DOMAIN result.body.query.must[i].body =
                {b \in {"gte", "lte"} : Supplied(IF b = "gte" THEN r[2] ELSE r[3])}
    /\ \A d \in docs :
         (\A r \in NumericRangeFields : \A i \in RangeClausesOn(r[1]) :
            ClauseMatch(d, result.body.query.must[i]))
           <=> \A r \in NumericRangeFields : Admits(d, r)
    /\ \A i \in 1..Len(seen) : \A r \in NumericRangeFields : Admits(seen[i], r)

\* a finished run with a min bound of 0 on cpu and a bound on another
\* field, which returned documents and left one of the organization out
NumericRangesWitness ==
  /\ phase = "done"
  /\ Supplied("minCpu") /\ filters.f["minCpu"] = 0
  /\ Supplied("maxMemoryGiB")
  /\ Len(seen) > 0
  /\ \E d \in docs :
       d.organizationId = organizationId /\ \E r \in NumericRangeFields : ~Admits(d, r)

(***************************************************************************)
(* C5: instances that run createIndex concurrently against a service       *)
(* without the index leave exactly one index and surface no error: the     *)
(* index is created once, and the instance whose create call loses the     *)
(* race gets already-exists and treats it as success.  (An instance fails  *)
(* only when the service failed a call for a reason of its own.)           *)
(***************************************************************************)
ConcurrentCreateIndex ==
  /\ creations <= 1
  /\ ~faulted => \A i \in Instances : pc[i] # "failed"
  /\ \A i \in Instances :
       Terminated(i) /\ answer[i] = "resource_already_exists_exception"
         => pc[i] = "initialized"
  /\ (\A i \in Instances : Terminated(i)) /\ ~faulted =>
       /\ indexExists
       /\ \A i \in Instances : pc[i] = "initialized"
       /\ (\E i \in Instances : answer[i] # "true") => creations = 1

\* two instances both saw no index, both called create, one lost the race,
\* and both finished their initialization
ConcurrentCreateIndexWitness ==
  /\ \A i \in Instances : pc[i] = "initialized"
  /\ ~faulted
  /\ \E i, j \in Instances :
       answer[i] = "created" /\ answer[j] = "resource_already_exists_exception"

=============================================================================
